---- MODULE Spec2Model ----
(***************************************************************************)
(* pg-backup: GFS (Grandfather-Father-Son) retention, the age-based        *)
(* retention of prune.ts, the prune command of cli.ts and the backup run   *)
(* of backup-service.ts.                                                   *)
(*                                                                         *)
(* The model follows gfs.ts: the calendar keys (getISOWeek, getMonthKey),  *)
(* the tier classifier (classifyBackups) and the prune selector            *)
(* (getBackupsToPrune).  Instants are counted in ticks since               *)
(* 1970-01-01T00:00Z, TicksPerDay ticks to a UTC day (JavaScript counts    *)
(* milliseconds; the classifier only compares instants and takes their UTC *)
(* calendar date).  Strings that the code compares (week and month keys)   *)
(* are sequences of character codes.                                       *)
(***************************************************************************)
EXTENDS Integers, Sequences, FiniteSets

----------------------------------------------------------------------------
(* Bounds of the model *)

\* ticks per UTC day (time resolution of the model)
TicksPerDay == 24

\* largest number of backups in the backup directory
MaxBackups == 3

\* largest value of each of config.daily, config.weekly, config.monthly
MaxCount == 2

\* largest minKeep passed to getBackupsToPrune
MaxMinKeep == 2

\* number of UTC days after the first one handed to the calendar keys
SweepDays == 1855

\* number of UTC days before 2025-12-29 on which the newest backup of a
\* series may lie
SeriesDays == 120

\* largest retention.days
MaxDays == 2

\* largest age in days of a backup in the backup directory
MaxAge == 3

----------------------------------------------------------------------------
(* JavaScript built-ins used by gfs.ts *)

Min(a, b) == IF a < b THEN a ELSE b

Max(a, b) == IF a > b THEN a ELSE b

\* Date.UTC(year, monthIndex, day) at 00:00, as a day number since the epoch
\* (proleptic Gregorian calendar, monthIndex 0..11)
DaysFromCivil(year, monthIndex, day) ==
  LET Days(y, mp) ==
        LET WithYoe(era, yoe) ==
              era * 146097
                + (yoe * 365 + yoe \div 4 - yoe \div 100 + (153 * mp + 2) \div 5 + day - 1)
                - 719468
        IN  WithYoe(y \div 400, y % 400)
  IN  Days(IF monthIndex + 1 <= 2 THEN year - 1 ELSE year,
           IF monthIndex + 1 > 2 THEN monthIndex - 2 ELSE monthIndex + 10)

\* the UTC calendar date [year, month (0..11), date (1..31)] of a day number
CivilFromDays(days) ==
  LET Civil(era, doe) ==
        LET WithYoe(yoe) ==
              LET WithDoy(doy) ==
                    LET WithMp(mp) ==
                          LET WithM(m) ==
                                [year  |-> yoe + era * 400 + (IF m <= 2 THEN 1 ELSE 0),
                                 month |-> m - 1,
                                 date  |-> doy - (153 * mp + 2) \div 5 + 1]
                          IN  WithM(IF mp < 10 THEN mp + 3 ELSE mp - 9)
                    IN  WithMp((5 * doy + 2) \div 153)
              IN  WithDoy(doe - (365 * yoe + yoe \div 4 - yoe \div 100))
        IN  WithYoe((doe - doe \div 1460 + doe \div 36524 - doe \div 146096) \div 365)
  IN  Civil((days + 719468) \div 146097, (days + 719468) % 146097)

\* Date.UTC(year, monthIndex, day): the instant of that UTC midnight
DateUTC(year, monthIndex, day) == DaysFromCivil(year, monthIndex, day) * TicksPerDay

getUTCFullYear(t) == CivilFromDays(t \div TicksPerDay).year

getUTCMonth(t) == CivilFromDays(t \div TicksPerDay).month

getUTCDate(t) == CivilFromDays(t \div TicksPerDay).date

\* 0 = Sunday .. 6 = Saturday; 1970-01-01 was a Thursday
getUTCDay(t) == ((t \div TicksPerDay) + 4) % 7

\* Number.prototype.toString() of a non-negative integer, as character codes
RECURSIVE NumToString(_)
NumToString(n) ==
  IF n < 10 THEN <<48 + n>> ELSE NumToString(n \div 10) \o <<48 + (n % 10)>>

\* String.prototype.padStart(width, "0")
RECURSIVE PadStart(_, _)
PadStart(s, width) == IF Len(s) >= width THEN s ELSE PadStart(<<48>> \o s, width)

\* a.localeCompare(b) for strings of digits, "-" and "W": -1, 0 or 1
LocaleCompare(a, b) ==
  LET m     == Min(Len(a), Len(b))
      diffs == {i \in 1..m : a[i] # b[i]}
  IN  IF diffs = {}
        THEN (IF Len(a) < Len(b) THEN -1 ELSE IF Len(a) > Len(b) THEN 1 ELSE 0)
        ELSE LET i == CHOOSE k \in diffs : \A l \in diffs : k <= l
             IN  IF a[i] < b[i] THEN -1 ELSE 1

\* Array.prototype.sort (stable): cmp[i][j] is the comparator applied to
\* (s[i], s[j]); a negative value puts s[i] first, 0 keeps the input order
StableSort(s, cmp) ==
  LET n      == Len(s)
      pos(i) == Cardinality({j \in 1..n : cmp[j][i] < 0 \/ (cmp[j][i] = 0 /\ j < i)}) + 1
  IN  [p \in 1..n |-> s[CHOOSE i \in 1..n : pos(i) = p]]

\* faulty variant: the last end elements, as slice(-end) takes them
Slice0FromEnd(s, end) == SubSeq(s, Len(s) - Min(end, Len(s)) + 1, Len(s))

\* Array.prototype.slice(0, end)
Slice0(s, end) == SubSeq(s, 1, Min(end, Len(s)))

\* Date.prototype.setUTCDate(n): day n of the date's month, n outside the
\* month rolls over into the neighbouring months
SetUTCDate(t, n) ==
  DateUTC(getUTCFullYear(t), getUTCMonth(t), n) + (t % TicksPerDay)

\* Math.ceil(a / b) for a >= 0, b > 0
CeilDiv(a, b) == (a + b - 1) \div b

\* the keys of a Map in insertion order: the distinct elements of keys, each
\* at its first occurrence
RECURSIVE MapKeys(_)
MapKeys(keys) ==
  IF keys = <<>> THEN <<>>
  ELSE LET init == MapKeys(SubSeq(keys, 1, Len(keys) - 1))
           last == keys[Len(keys)]
       IN  IF \E i \in 1..Len(init) : init[i] = last THEN init ELSE Append(init, last)

----------------------------------------------------------------------------
(* Calendar keys *)

\* faulty variant: the week number is rounded down
getISOWeekFloor(date) ==
  LET Thursday(d) ==
        SetUTCDate(d, getUTCDate(d) + 4 - (IF getUTCDay(d) = 0 THEN 7 ELSE getUTCDay(d)))
      Week(d) ==
        [year |-> getUTCFullYear(d),
         week |-> ((d - DateUTC(getUTCFullYear(d), 0, 1)) \div TicksPerDay + 1) \div 7]
  IN  Week(Thursday(DateUTC(getUTCFullYear(date), getUTCMonth(date), getUTCDate(date))))

\* faulty variant: Sunday keeps the day number 0
getISOWeekSundayFirst(date) ==
  LET Thursday(d) == SetUTCDate(d, getUTCDate(d) + 4 - getUTCDay(d))
      Week(d) ==
        [year |-> getUTCFullYear(d),
         week |-> CeilDiv((d - DateUTC(getUTCFullYear(d), 0, 1)) \div TicksPerDay + 1, 7)]
  IN  Week(Thursday(DateUTC(getUTCFullYear(date), getUTCMonth(date), getUTCDate(date))))

\* faulty variant: the year is the calendar year of the date itself
getISOWeekCalendarYear(date) ==
  LET Thursday(d) ==
        SetUTCDate(d, getUTCDate(d) + 4 - (IF getUTCDay(d) = 0 THEN 7 ELSE getUTCDay(d)))
      Week(d) ==
        [year |-> getUTCFullYear(date),
         week |-> CeilDiv((d - DateUTC(getUTCFullYear(d), 0, 1)) \div TicksPerDay + 1, 7)]
  IN  Week(Thursday(DateUTC(getUTCFullYear(date), getUTCMonth(date), getUTCDate(date))))

getISOWeek(date) ==
  LET \* d.setUTCDate(d.getUTCDate() + 4 - dayNum), dayNum = d.getUTCDay() || 7
      Thursday(d) ==
        SetUTCDate(d, getUTCDate(d) + 4 - (IF getUTCDay(d) = 0 THEN 7 ELSE getUTCDay(d)))
      \* yearStart = Date.UTC(d.getUTCFullYear(), 0, 1); weekNum; the result
      Week(d) ==
        [year |-> getUTCFullYear(d),
         week |-> CeilDiv((d - DateUTC(getUTCFullYear(d), 0, 1)) \div TicksPerDay + 1, 7)]
  IN  Week(Thursday(DateUTC(getUTCFullYear(date), getUTCMonth(date), getUTCDate(date))))

\* faulty variant: the month is not padded
getMonthKeyNoPad(date) ==
  LET year  == getUTCFullYear(date)
      month == NumToString(getUTCMonth(date) + 1)
  IN  NumToString(year) \o <<45>> \o month

\* "YYYY-MM"
getMonthKey(date) ==
  LET year  == getUTCFullYear(date)
      month == PadStart(NumToString(getUTCMonth(date) + 1), 2)
  IN  NumToString(year) \o <<45>> \o month

\* faulty variant: the week number is not padded
WeekKeyNoPad(date) ==
  LET Key(w) == NumToString(w.year) \o <<45, 87>> \o NumToString(w.week)
  IN  Key(getISOWeek(date))

\* `${year}-W${week.toString().padStart(2, "0")}`
WeekKey(date) ==
  LET Key(w) == NumToString(w.year) \o <<45, 87>> \o PadStart(NumToString(w.week), 2)
  IN  Key(getISOWeek(date))

----------------------------------------------------------------------------
(* Tier classifier *)

\* new Date(manifest.timestamp).getTime()
GetTime(manifest) == manifest.timestamp

\* the ids of the manifests of a list of TieredBackup records
Ids(records) == {records[i].manifest.id : i \in 1..Len(records)}

\* faulty variant: the listing is not sorted before the phases
SortNewestFirstUnsorted(manifests) == manifests

\* [...manifests].sort((a, b) => time(b) - time(a)): newest first
SortNewestFirst(manifests) ==
  StableSort(manifests,
             [i \in 1..Len(manifests) |-> [j \in 1..Len(manifests) |->
                GetTime(manifests[j]) - GetTime(manifests[i])]])

\* faulty variant: the backups of a group are not sorted
SortOldestFirstUnsorted(backups) == backups

\* [...backups].sort((a, b) => time(a) - time(b)): oldest first
SortOldestFirst(backups) ==
  StableSort(backups,
             [i \in 1..Len(backups) |-> [j \in 1..Len(backups) |->
                GetTime(backups[i]) - GetTime(backups[j])]])

\* faulty variant: the daily loop stops one backup early
DailyPhaseShort(sorted, config) ==
  [i \in 1..Min(config.daily - 1, Len(sorted)) |->
     [manifest |-> sorted[i], tier |-> "daily",
      tierReason |-> [kind |-> "newest", arg |-> NumToString(config.daily)]]]

\* faulty variant: the daily loop walks the sorted list from its old end
DailyPhaseOldest(sorted, config) ==
  [i \in 1..Min(config.daily, Len(sorted)) |->
     [manifest |-> sorted[Len(sorted) + 1 - i], tier |-> "daily",
      tierReason |-> [kind |-> "newest", arg |-> NumToString(config.daily)]]]

\* Phase 1: the newest config.daily backups are daily
DailyPhase(sorted, config) ==
  [i \in 1..Min(config.daily, Len(sorted)) |->
     [manifest |-> sorted[i], tier |-> "daily",
      tierReason |-> [kind |-> "newest", arg |-> NumToString(config.daily)]]]

\* faulty variant: the assigned set is not consulted
UnassignedAll(sorted, assigned) == sorted

\* sorted.filter((m) => !assigned.has(m.id))
Unassigned(sorted, assigned) == SelectSeq(sorted, LAMBDA m : m.id \notin assigned)

\* the oldest backup of every ISO week among remaining, in the order in which
\* the weeks were first met (weekGroups, then weeklyCandidate)
WeeklyCandidates(remaining) ==
  LET Group(keyed, key) ==
        LET g == SelectSeq(keyed, LAMBDA x : x.key = key)
        IN  [i \in 1..Len(g) |-> g[i].manifest]
      Candidates(keyed, keys) ==
        [k \in 1..Len(keys) |->
           [key |-> keys[k], manifest |-> SortOldestFirst(Group(keyed, keys[k]))[1]]]
      Keyed(keyed) == Candidates(keyed, MapKeys([i \in 1..Len(keyed) |-> keyed[i].key]))
  IN  Keyed([i \in 1..Len(remaining) |->
               [manifest |-> remaining[i], key |-> WeekKey(GetTime(remaining[i]))]])

\* the oldest backup of every UTC month among remaining, in the order in
\* which the months were first met (monthGroups, then monthlyCandidates)
MonthlyCandidates(remaining) ==
  LET Group(keyed, key) ==
        LET g == SelectSeq(keyed, LAMBDA x : x.key = key)
        IN  [i \in 1..Len(g) |-> g[i].manifest]
      Candidates(keyed, keys) ==
        [k \in 1..Len(keys) |->
           [key |-> keys[k], manifest |-> SortOldestFirst(Group(keyed, keys[k]))[1]]]
      Keyed(keyed) == Candidates(keyed, MapKeys([i \in 1..Len(keyed) |-> keyed[i].key]))
  IN  Keyed([i \in 1..Len(remaining) |->
               [manifest |-> remaining[i], key |-> getMonthKey(GetTime(remaining[i]))]])

\* faulty variant: the candidates are sorted oldest period first
SortByKeyAsc(candidates) ==
  StableSort(candidates,
             [i \in 1..Len(candidates) |-> [j \in 1..Len(candidates) |->
                LocaleCompare(candidates[i].key, candidates[j].key)]])

\* candidates.sort((a, b) => b.key.localeCompare(a.key)): newest period first
SortByKeyDesc(candidates) ==
  StableSort(candidates,
             [i \in 1..Len(candidates) |-> [j \in 1..Len(candidates) |->
                LocaleCompare(candidates[j].key, candidates[i].key)]])

\* faulty variant: the weekly limit is not applied
WeeklyPhaseNoLimit(candidates, config) ==
  [i \in 1..Len(candidates) |->
     [manifest |-> candidates[i].manifest, tier |-> "weekly",
      tierReason |-> [kind |-> "week", arg |-> candidates[i].key]]]

\* Phase 2: the candidates of the newest config.weekly weeks are weekly
WeeklyPhase(candidates, config) ==
  [i \in 1..Min(Max(config.weekly, 0), Len(candidates)) |->
     [manifest |-> candidates[i].manifest, tier |-> "weekly",
      tierReason |-> [kind |-> "week", arg |-> candidates[i].key]]]

\* faulty variant: the monthly limit is not applied
MonthlyPhaseNoLimit(candidates, config) ==
  [i \in 1..Len(candidates) |->
     [manifest |-> candidates[i].manifest, tier |-> "monthly",
      tierReason |-> [kind |-> "month", arg |-> candidates[i].key]]]

\* Phase 3: the candidates of the newest config.monthly months are monthly
MonthlyPhase(candidates, config) ==
  [i \in 1..Min(Max(config.monthly, 0), Len(candidates)) |->
     [manifest |-> candidates[i].manifest, tier |-> "monthly",
      tierReason |-> [kind |-> "month", arg |-> candidates[i].key]]]

\* faulty variant: every backup is pushed as prunable, assigned or not
PrunablePhaseAll(sorted, assigned) ==
  [i \in 1..Len(sorted) |->
     [manifest |-> sorted[i], tier |-> "prunable",
      tierReason |-> [kind |-> "exceeds retention", arg |-> <<>>]]]

\* Phase 4: every backup not assigned so far is prunable
PrunablePhase(sorted, assigned) ==
  LET rest == Unassigned(sorted, assigned)
  IN  [i \in 1..Len(rest) |->
         [manifest |-> rest[i], tier |-> "prunable",
          tierReason |-> [kind |-> "exceeds retention", arg |-> <<>>]]]

\* faulty variant: the result is left in the order of the passes
SortResultNone(result) == result

\* result.sort((a, b) => time(b.manifest) - time(a.manifest))
SortResult(result) ==
  StableSort(result,
             [i \in 1..Len(result) |-> [j \in 1..Len(result) |->
                GetTime(result[j].manifest) - GetTime(result[i].manifest)]])

classifyBackups(manifests, config) ==
  IF Len(manifests) = 0 THEN <<>>
  ELSE
    LET sorted    == SortNewestFirst(manifests)
        daily     == DailyPhase(sorted, config)
        assigned1 == Ids(daily)
        weekly    == WeeklyPhase(
                       SortByKeyDesc(WeeklyCandidates(Unassigned(sorted, assigned1))),
                       config)
        assigned2 == assigned1 \cup Ids(weekly)
        monthly   == MonthlyPhase(
                       SortByKeyDesc(MonthlyCandidates(Unassigned(sorted, assigned2))),
                       config)
        assigned3 == assigned2 \cup Ids(monthly)
        prunable  == PrunablePhase(sorted, assigned3)
    IN  SortResult(daily \o weekly \o monthly \o prunable)

----------------------------------------------------------------------------
(* Prune selector *)

\* faulty variant: the filter lets weekly and monthly backups through
PrunableNotDaily(classified) == SelectSeq(classified, LAMBDA t : t.tier # "daily")

\* classified.filter((t) => t.tier === "prunable")
Prunable(classified) == SelectSeq(classified, LAMBDA t : t.tier = "prunable")

\* faulty variant: the floor is ignored
MaxToPruneNoFloor(totalBackups, minKeep) == totalBackups

\* faulty variant: one backup too many may be pruned
MaxToPruneOneMore(totalBackups, minKeep) == Max(0, totalBackups - minKeep + 1)

\* faulty variant: one backup too few may be pruned
MaxToPruneOneLess(totalBackups, minKeep) == Max(0, totalBackups - minKeep - 1)

\* Math.max(0, totalBackups - minKeep)
MaxToPrune(totalBackups, minKeep) == Max(0, totalBackups - minKeep)

\* faulty variant: the prunable backups stay in newest-first order
PrunableNewestFirst(prunable) == prunable

\* [...prunable].sort((a, b) => time(a.manifest) - time(b.manifest))
PrunableOldestFirst(prunable) ==
  StableSort(prunable,
             [i \in 1..Len(prunable) |-> [j \in 1..Len(prunable) |->
                GetTime(prunable[i].manifest) - GetTime(prunable[j].manifest)]])

getBackupsToPrune(manifests, config, minKeep) ==
  IF Len(manifests) = 0 THEN <<>>
  ELSE
    LET classified == classifyBackups(manifests, config)
        prunable   == Prunable(classified)
        maxToPrune == MaxToPrune(Len(manifests), minKeep)
    IN  Slice0(PrunableOldestFirst(prunable), maxToPrune)

----------------------------------------------------------------------------
(* The callers: a backup directory is listed and handed to the classifier   *)
(* and to the prune selector                                                *)

\* the instant of hour h of the UTC day year-month-day (month 1..12)
Instant(year, month, day, h) == DateUTC(year, month - 1, day) + h

\* the creation instants of the backups of the model: two days of ISO week
\* 2026-W01 that lie in different months and years, a day of 2025-W52 and a
\* day of November 2025
Instants ==
  { Instant(2026, 1, 1, 0), Instant(2025, 12, 29, 12),
    Instant(2025, 12, 22, 6), Instant(2025, 11, 15, 12) }

\* the listings of a backup directory: the ids are unique
Listings ==
  UNION { { [i \in 1..n |-> [id |-> i, timestamp |-> f[i]]] : f \in [1..n -> Instants] }
          : n \in 0..MaxBackups }

Configs == [daily : 0..MaxCount, weekly : 0..MaxCount, monthly : 0..MaxCount]

\* the list with the elements i and i + 1 exchanged
SwapAdjacent(s, i) ==
  [k \in 1..Len(s) |-> IF k = i THEN s[i + 1] ELSE IF k = i + 1 THEN s[i] ELSE s[k]]

VARIABLES
  manifests,     \* the listing of the backup directory
  config,        \* the GFS configuration
  classified,    \* the result of classifyBackups(manifests, config)
  reordered,     \* the same backups listed in another order
  reclassified,  \* the result of classifyBackups(reordered, config)
  minKeep,       \* the floor passed to getBackupsToPrune
  toPrune,       \* the result of getBackupsToPrune(manifests, config, minKeep)
  date,          \* the instant handed to getISOWeek and getMonthKey
  isoWeek,       \* the result of getISOWeek(date)
  monthKey,      \* the result of getMonthKey(date)
  backupDir,     \* the backup directory: whether it exists, and its backups
  retention,     \* the retention configuration (days, minKeep)
  now,           \* the clock
  shouldPruneCall,  \* the arguments and the result of a call of shouldPrune
  dryRunResult,  \* the result of runPrune with dryRun
  pruneResult,   \* the result of runPrune
  gfsEnabled,    \* config.retention.gfs.enabled
  options,       \* the options of the prune command
  toDelete,      \* the prune command's list of backups to delete
  toKeep,        \* the prune command's list of backups to keep
  backupConfig,  \* what runBackup is configured to do
  backupEnv,     \* how the steps of a backup run turn out
  backupResult,  \* the result of runBackup
  afterPrune,    \* the listing without the backups of toPrune
  afterPruneClassified,  \* classifyBackups(afterPrune, config)
  afterPruneToPrune,     \* getBackupsToPrune(afterPrune, config, minKeep)
  raised,        \* a GFS configuration with counts at least those of config
  raisedClassified,     \* classifyBackups(manifests, raised)
  higherMinKeep, \* a floor at least minKeep
  higherToPrune, \* getBackupsToPrune(manifests, config, higherMinKeep)
  pc             \* "start", "classified", "reclassified" or "pruned"; for the
                 \* calendar keys "date", "week" or "month"

gfs == <<manifests, config, classified, reordered, reclassified, minKeep, toPrune>>

calendar == <<date, isoWeek, monthKey>>

legacy == <<backupDir, retention, now, shouldPruneCall, dryRunResult, pruneResult>>

command == <<gfsEnabled, options, toDelete, toKeep>>

backup == <<backupConfig, backupEnv, backupResult>>

relational == <<afterPrune, afterPruneClassified, afterPruneToPrune,
                raised, raisedClassified, higherMinKeep, higherToPrune>>

\* the state outside the GFS functions and the calendar keys
elsewhere == <<legacy, command, backup, relational>>

vars == <<gfs, calendar, legacy, command, backup, relational, pc>>

\* no week computed yet
NoWeek == [year |-> 0, week |-> 0]

\* no backup directory
NoDir == [exists |-> FALSE, entries |-> <<>>]

\* no call made yet
NoCall == [made |-> FALSE]

\* the GFS functions have not been called
GfsIdle ==
  /\ manifests = <<>>
  /\ config = [daily |-> 0, weekly |-> 0, monthly |-> 0]
  /\ classified = <<>>
  /\ reordered = <<>>
  /\ reclassified = <<>>
  /\ minKeep = 0
  /\ toPrune = <<>>

CalendarIdle ==
  /\ date = 0
  /\ isoWeek = NoWeek
  /\ monthKey = <<>>

LegacyIdle ==
  /\ backupDir = NoDir
  /\ retention = [days |-> 0, minKeep |-> 0]
  /\ now = 0
  /\ shouldPruneCall = NoCall
  /\ dryRunResult = NoCall
  /\ pruneResult = NoCall

CommandIdle ==
  /\ gfsEnabled = FALSE
  /\ options = NoCall
  /\ toDelete = <<>>
  /\ toKeep = <<>>

BackupIdle ==
  /\ backupConfig = NoCall
  /\ backupEnv = NoCall
  /\ backupResult = NoCall

RelationalIdle ==
  /\ afterPrune = <<>>
  /\ afterPruneClassified = <<>>
  /\ afterPruneToPrune = <<>>
  /\ raised = [daily |-> 0, weekly |-> 0, monthly |-> 0]
  /\ raisedClassified = <<>>
  /\ higherMinKeep = 0
  /\ higherToPrune = <<>>

ElsewhereIdle == LegacyIdle /\ CommandIdle /\ BackupIdle /\ RelationalIdle

Init ==
  /\ manifests \in Listings
  /\ config \in Configs
  /\ classified = <<>>
  /\ reordered = <<>>
  /\ reclassified = <<>>
  /\ minKeep = 0
  /\ toPrune = <<>>
  /\ CalendarIdle
  /\ ElsewhereIdle
  /\ pc = "start"

\* a caller classifies the listing
Classify ==
  /\ pc = "start"
  /\ classified' = classifyBackups(manifests, config)
  /\ pc' = "classified"
  /\ UNCHANGED <<manifests, config, reordered, reclassified, minKeep, toPrune>>
  /\ UNCHANGED <<calendar, elsewhere>>

\* a caller classifies the same backups, listed in another order
ClassifyReordered ==
  /\ pc = "classified"
  /\ \E i \in 1..(Len(manifests) - 1) :
       /\ reordered' = SwapAdjacent(manifests, i)
       /\ reclassified' = classifyBackups(reordered', config)
  /\ pc' = "reclassified"
  /\ UNCHANGED <<manifests, config, classified, minKeep, toPrune>>
  /\ UNCHANGED <<calendar, elsewhere>>

\* a caller asks which backups to delete
GetBackupsToPrune ==
  /\ pc = "classified"
  /\ \E k \in 0..MaxMinKeep :
       /\ minKeep' = k
       /\ toPrune' = getBackupsToPrune(manifests, config, k)
  /\ pc' = "pruned"
  /\ UNCHANGED <<manifests, config, classified, reordered, reclassified>>
  /\ UNCHANGED <<calendar, elsewhere>>

Next == Classify \/ ClassifyReordered \/ GetBackupsToPrune

Spec == Init /\ [][Next]_vars

\* the list command: the listing is classified and shown, nothing is pruned
SpecClassify == Init /\ [][Classify]_vars

----------------------------------------------------------------------------
(* The calendar keys on their own: an instant is handed to getISOWeek and   *)
(* to getMonthKey                                                           *)

\* the instants of the model: the first and the last hour of every UTC day
\* from 2020-12-20 on, SweepDays days long (to January 2026: week 53 of
\* 2020 and the year ends 2020/21 and 2025/26 are among them)
FirstDay == DateUTC(2020, 11, 20) \div TicksPerDay

Days == FirstDay..(FirstDay + SweepDays)

Dates == {n * TicksPerDay + h : n \in Days, h \in {0, TicksPerDay - 1}}

CalendarInit ==
  /\ manifests = <<>>
  /\ config = [daily |-> 0, weekly |-> 0, monthly |-> 0]
  /\ classified = <<>>
  /\ reordered = <<>>
  /\ reclassified = <<>>
  /\ minKeep = 0
  /\ toPrune = <<>>
  /\ date \in Dates
  /\ isoWeek = NoWeek
  /\ monthKey = <<>>
  /\ ElsewhereIdle
  /\ pc = "date"

\* a caller asks for the ISO week of the instant
GetISOWeek ==
  /\ pc = "date"
  /\ isoWeek' = getISOWeek(date)
  /\ pc' = "week"
  /\ UNCHANGED <<manifests, config, classified, reordered, reclassified, minKeep, toPrune>>
  /\ UNCHANGED <<date, monthKey, elsewhere>>

\* a caller asks for the month key of the instant
GetMonthKey ==
  /\ pc = "date"
  /\ monthKey' = getMonthKey(date)
  /\ pc' = "month"
  /\ UNCHANGED <<manifests, config, classified, reordered, reclassified, minKeep, toPrune>>
  /\ UNCHANGED <<date, isoWeek, elsewhere>>

CalendarNext == GetISOWeek \/ GetMonthKey

SpecCalendar == CalendarInit /\ [][CalendarNext]_vars

----------------------------------------------------------------------------
(* Vocabulary of the properties *)

Range(s) == {s[i] : i \in 1..Len(s)}

Tiers == {"daily", "weekly", "monthly", "prunable"}

\* the records a classification holds for the backup id
RecordsOf(result, id) == {i \in 1..Len(result) : result[i].manifest.id = id}

\* the tiers a classification gives to the backup id
TiersOf(result, id) == {result[i].tier : i \in RecordsOf(result, id)}

\* the (backup, tier, reason) triples of a classification
AsSet(result) == Range(result)

\* the records of a classification that are prunable
PrunableSet(result) == {r \in Range(result) : r.tier = "prunable"}

\* the backups that survive the deletion of the backups of a prune list
Survivors(listing, pruned) ==
  {m \in Range(listing) : \A i \in 1..Len(pruned) : pruned[i].manifest.id # m.id}

\* no two backups of the listing were created at the same instant
DistinctInstants(listing) ==
  \A i, j \in 1..Len(listing) :
    i # j => GetTime(listing[i]) # GetTime(listing[j])

\* fewer than n other backups of the listing are as new as m or newer: m is
\* among the n newest backups whatever the order of equal instants
AmongNewest(listing, m, n) ==
  Cardinality({x \in Range(listing) : x.id # m.id /\ GetTime(x) >= GetTime(m)}) < n

SameWeek(a, b) == getISOWeek(GetTime(a)) = getISOWeek(GetTime(b))

SameMonth(a, b) ==
  /\ getUTCFullYear(GetTime(a)) = getUTCFullYear(GetTime(b))
  /\ getUTCMonth(GetTime(a)) = getUTCMonth(GetTime(b))

\* the ISO week of a is chronologically later than the ISO week of b
WeekLater(a, b) ==
  LET wa == getISOWeek(GetTime(a))
      wb == getISOWeek(GetTime(b))
  IN  wa.year > wb.year \/ (wa.year = wb.year /\ wa.week > wb.week)

\* the UTC month of a is chronologically later than the UTC month of b
MonthLater(a, b) ==
  \/ getUTCFullYear(GetTime(a)) > getUTCFullYear(GetTime(b))
  \/ /\ getUTCFullYear(GetTime(a)) = getUTCFullYear(GetTime(b))
     /\ getUTCMonth(GetTime(a)) > getUTCMonth(GetTime(b))

\* m is the one oldest backup of its ISO week among the backups S, and fewer
\* than n ISO weeks of S are later than its week
WeeklyPick(S, m, n) ==
  /\ \A x \in S : (x.id # m.id /\ SameWeek(x, m)) => GetTime(x) > GetTime(m)
  /\ LET later == {x \in S : WeekLater(x, m)}
     IN  \A W \in SUBSET later :
           (\A x, y \in W : x # y => ~SameWeek(x, y)) => Cardinality(W) < n

\* m is the one oldest backup of its UTC month among the backups S, and fewer
\* than n months of S are later than its month
MonthlyPick(S, m, n) ==
  /\ \A x \in S : (x.id # m.id /\ SameMonth(x, m)) => GetTime(x) > GetTime(m)
  /\ LET later == {x \in S : MonthLater(x, m)}
     IN  \A W \in SUBSET later :
           (\A x, y \in W : x # y => ~SameMonth(x, y)) => Cardinality(W) < n

----------------------------------------------------------------------------
(* Properties of the classifier and of the prune selector *)

\* C1: classifyBackups returns exactly one record for every backup of the
\* listing and no other record, and every backup gets exactly one of the
\* tiers daily, weekly, monthly, prunable.
ClassifiedExactlyOnce ==
  pc # "start" =>
    /\ Len(classified) = Len(manifests)
    /\ \A k \in 1..Len(manifests) :
         /\ Cardinality({i \in 1..Len(classified) :
                           classified[i].manifest = manifests[k]}) = 1
         /\ Cardinality(TiersOf(classified, manifests[k].id)) = 1
    /\ \A i \in 1..Len(classified) : classified[i].tier \in Tiers

\* a listing of three backups that is classified into more than one tier
ClassifiedExactlyOnceWitness ==
  /\ pc = "classified"
  /\ Len(manifests) = 3
  /\ \E i, j \in 1..Len(classified) :
       classified[i].tier = "weekly" /\ classified[j].tier = "prunable"

\* C2: after the deletion of the backups returned by getBackupsToPrune at
\* least minKeep backups survive, and all of them survive when there are no
\* more than minKeep.
FloorSurvives ==
  pc = "pruned" =>
    LET survivors == Survivors(manifests, toPrune)
    IN  /\ Len(manifests) > minKeep => Cardinality(survivors) >= minKeep
        /\ Len(manifests) <= minKeep => survivors = Range(manifests)

\* the floor decides: every backup is prunable, and exactly minKeep survive
FloorSurvivesWitness ==
  /\ pc = "pruned"
  /\ minKeep = 2
  /\ Len(manifests) = 3
  /\ \A i \in 1..Len(classified) : classified[i].tier = "prunable"
  /\ Cardinality(Survivors(manifests, toPrune)) = 2

\* C3: getBackupsToPrune returns at most max(0, |B| - minKeep) backups, and
\* none when |B| <= minKeep.
PruneCountBounded ==
  pc = "pruned" =>
    /\ Len(toPrune) <= (IF Len(manifests) - minKeep > 0
                        THEN Len(manifests) - minKeep ELSE 0)
    /\ Len(manifests) <= minKeep => toPrune = <<>>

\* the bound is met: a prune list of exactly |B| - minKeep > 0 backups
PruneCountBoundedWitness ==
  /\ pc = "pruned"
  /\ minKeep >= 1
  /\ Len(toPrune) >= 1
  /\ Len(toPrune) = Len(manifests) - minKeep

\* C4: every record returned by getBackupsToPrune is a record of
\* classifyBackups with tier prunable, tier and reason unchanged.
PruneOnlyPrunable ==
  pc = "pruned" =>
    \A i \in 1..Len(toPrune) :
      /\ toPrune[i].tier = "prunable"
      /\ toPrune[i] \in Range(classified)

\* a prune list next to kept daily, weekly or monthly backups, with a floor
PruneOnlyPrunableWitness ==
  /\ pc = "pruned"
  /\ minKeep >= 1
  /\ toPrune # <<>>
  /\ \E r \in Range(classified) : r.tier \in {"daily", "weekly", "monthly"}

\* C5 as stated: the classification, read as a set of (backup, tier, reason)
\* triples, is the same for every order of the listing.
OrderIndependent ==
  pc = "reclassified" => AsSet(reclassified) = AsSet(classified)

\* C5 amended: when no two backups have the same instant, the classification
\* is the same for every order of the listing (the orders of a listing are
\* reached by exchanging neighbours, and every order is classified).
OrderIndependentDistinct ==
  (pc = "reclassified" /\ DistinctInstants(manifests)) =>
    AsSet(reclassified) = AsSet(classified)

\* three backups of different instants, reordered, in more than one tier
OrderIndependentDistinctWitness ==
  /\ pc = "reclassified"
  /\ Len(manifests) = 3
  /\ DistinctInstants(manifests)
  /\ reordered # manifests
  /\ \E r1, r2 \in Range(reclassified) : r1.tier = "daily" /\ r2.tier = "prunable"

\* C6: at most config.daily + config.weekly + config.monthly backups are
\* daily, weekly or monthly.
RetainedBounded ==
  pc # "start" =>
    Cardinality({i \in 1..Len(classified) : classified[i].tier # "prunable"})
      <= config.daily + config.weekly + config.monthly

\* the tiers are full and a backup is left over
RetainedBoundedWitness ==
  /\ pc = "classified"
  /\ config.daily + config.weekly + config.monthly = 2
  /\ Cardinality({i \in 1..Len(classified) : classified[i].tier # "prunable"}) = 2
  /\ \E i \in 1..Len(classified) : classified[i].tier = "prunable"

\* C7: the prune list is in oldest-first order, and every prunable backup
\* that is not returned is at least as new as every returned one.
PruneOldestFirst ==
  pc = "pruned" =>
    /\ \A i, j \in 1..Len(toPrune) :
         i < j => GetTime(toPrune[i].manifest) <= GetTime(toPrune[j].manifest)
    /\ \A kept \in PrunableSet(classified) \ Range(toPrune) :
         \A i \in 1..Len(toPrune) :
           GetTime(kept.manifest) >= GetTime(toPrune[i].manifest)

\* the floor keeps a prunable backup that is newer than the two returned
\* ones, which differ in age
PruneOldestFirstWitness ==
  /\ pc = "pruned"
  /\ Len(toPrune) = 2
  /\ GetTime(toPrune[1].manifest) < GetTime(toPrune[2].manifest)
  /\ \E kept \in PrunableSet(classified) \ Range(toPrune) :
       GetTime(kept.manifest) > GetTime(toPrune[2].manifest)

\* C8: with minKeep = 0 the prune list is exactly the set of prunable records
\* of the classification.
NoFloorPrunesAll ==
  (pc = "pruned" /\ minKeep = 0) =>
    /\ Range(toPrune) = PrunableSet(classified)
    /\ Len(toPrune) = Cardinality(PrunableSet(classified))

\* no floor, and both kept and pruned backups
NoFloorPrunesAllWitness ==
  /\ pc = "pruned"
  /\ minKeep = 0
  /\ Len(toPrune) >= 2
  /\ Len(toPrune) < Len(manifests)

\* C9: when minKeep <= config.daily the prune list holds every prunable
\* record of the classification.
FloorWithinDaily ==
  (pc = "pruned" /\ minKeep <= config.daily) =>
    \A r \in PrunableSet(classified) : r \in Range(toPrune)

\* a floor that the daily tier meets, and backups to prune
FloorWithinDailyWitness ==
  /\ pc = "pruned"
  /\ minKeep >= 1
  /\ minKeep <= config.daily
  /\ Len(toPrune) >= 2

----------------------------------------------------------------------------
(* A series of backups taken at a fixed interval, newest first, classified  *)
(* with daily = 2, weekly = 1, monthly = 1                                  *)

\* for (let i = 0; i < 10; i++)
SeriesLength == 10

\* date.setDate(date.getDate() - i * 3)
SeriesInterval == 3

\* backup-i is created i * 3 days before the newest, at the same hour
Series(newest) ==
  [k \in 1..SeriesLength |->
     [id |-> k, timestamp |-> newest - (k - 1) * SeriesInterval * TicksPerDay]]

\* the newest backup lies at noon of 2025-12-29 or of one of the SeriesDays
\* days before
SeriesStarts ==
  {Instant(2025, 12, 29, TicksPerDay \div 2) - n * TicksPerDay : n \in 0..SeriesDays}

SeriesInit ==
  /\ manifests \in {Series(newest) : newest \in SeriesStarts}
  /\ config = [daily |-> 2, weekly |-> 1, monthly |-> 1]
  /\ classified = <<>>
  /\ reordered = <<>>
  /\ reclassified = <<>>
  /\ minKeep = 0
  /\ toPrune = <<>>
  /\ CalendarIdle
  /\ ElsewhereIdle
  /\ pc = "start"

SpecSeries == SeriesInit /\ [][Classify]_vars

----------------------------------------------------------------------------
(* Age-based retention: prune.ts *)

\* faulty variant: the index of the backup is not looked at
shouldPruneNoIndex(ret, backupAge, totalBackups, backupIndex) ==
  IF totalBackups <= ret.minKeep THEN FALSE
  ELSE backupAge > ret.days

\* faulty variant: a backup is pruned from the age retention.days on
shouldPruneAtLeast(ret, backupAge, totalBackups, backupIndex) ==
  IF totalBackups <= ret.minKeep THEN FALSE
  ELSE IF backupIndex < ret.minKeep THEN FALSE
  ELSE backupAge >= ret.days

\* Math.floor((now - backupDate) / (24 * 60 * 60 * 1000))
getBackupAge(timestamp, clock) == (clock - timestamp) \div TicksPerDay

shouldPrune(ret, backupAge, totalBackups, backupIndex) ==
  IF totalBackups <= ret.minKeep THEN FALSE
  ELSE IF backupIndex < ret.minKeep THEN FALSE
  ELSE backupAge > ret.days

\* manifest.ts: the manifests of the backup directory, newest first
listManifests(dir) ==
  IF ~dir.exists THEN <<>> ELSE SortNewestFirst(dir.entries)

\* the ids of the listed backups for which shouldPrune returns the value
\* wanted, in the order of the listing
DecidedIds(listed, ret, clock, wanted) ==
  LET Decision(i) ==
        shouldPrune(ret, getBackupAge(listed[i].timestamp, clock), Len(listed), i - 1)
      Ids2(chosen) == [k \in 1..Len(chosen) |-> listed[chosen[k]].id]
  IN  Ids2(SelectSeq([i \in 1..Len(listed) |-> i], LAMBDA i : Decision(i) = wanted))

\* faulty variant: the directories are removed in a dry run too
RemovedAlways(pruned, dryRun, failing) ==
  {pruned[k] : k \in 1..Len(pruned)} \ failing

\* the ids whose directories runPrune removes: those it pushed to pruned,
\* unless it runs dry or rm fails
Removed(pruned, dryRun, failing) ==
  IF dryRun THEN {} ELSE {pruned[k] : k \in 1..Len(pruned)} \ failing

\* the result of runPrune
runPrune(dir, ret, clock, dryRun, failing) ==
  IF ~dir.exists \/ Len(listManifests(dir)) = 0
  THEN [success |-> TRUE, pruned |-> <<>>, kept |-> <<>>, dryRun |-> dryRun]
  ELSE LET Result(pruned, kept) ==
             [success |-> dryRun \/ \A k \in 1..Len(pruned) : pruned[k] \notin failing,
              pruned  |-> pruned,
              kept    |-> kept,
              dryRun  |-> dryRun]
           Listed2(listed) ==
             Result(DecidedIds(listed, ret, clock, TRUE),
                    DecidedIds(listed, ret, clock, FALSE))
       IN  Listed2(listManifests(dir))

\* the backup directory after runPrune
DirAfterPrune(dir, result, failing) ==
  LET Without(removed) ==
        [dir EXCEPT !.entries = SelectSeq(dir.entries, LAMBDA m : m.id \notin removed)]
  IN  Without(Removed(result.pruned, result.dryRun, failing))

Retentions == [days : 0..MaxDays, minKeep : 0..MaxMinKeep]

\* the clock of the runs of the model
PruneNow == Instant(2026, 1, 1, 12)

\* the backups of a directory were created 0..MaxAge days and half a day
\* before the clock
PruneInstants == {PruneNow - a * TicksPerDay - TicksPerDay \div 2 : a \in 0..MaxAge}

\* the backup directories: none, or up to MaxBackups backups in the order
\* in which readdir returns them
Dirs ==
  {NoDir} \cup
  UNION { { [exists |-> TRUE,
             entries |-> [i \in 1..n |-> [id |-> i, timestamp |-> f[i]]]] :
            f \in [1..n -> PruneInstants] }
          : n \in 0..MaxBackups }

\* the arguments of shouldPrune
ShouldPruneInit ==
  /\ retention \in Retentions
  /\ backupDir = NoDir
  /\ now = 0
  /\ shouldPruneCall = NoCall
  /\ dryRunResult = NoCall
  /\ pruneResult = NoCall
  /\ GfsIdle /\ CalendarIdle /\ CommandIdle /\ BackupIdle /\ RelationalIdle
  /\ pc = "start"

\* a caller asks whether a backup is to be pruned
ShouldPrune ==
  /\ pc = "start"
  /\ \E backupAge \in (0 - 1)..(MaxDays + 1), totalBackups \in 0..(MaxBackups + 1),
        backupIndex \in 0..MaxBackups :
       shouldPruneCall' =
         [made |-> TRUE, backupAge |-> backupAge, totalBackups |-> totalBackups,
          backupIndex |-> backupIndex,
          result |-> shouldPrune(retention, backupAge, totalBackups, backupIndex)]
  /\ pc' = "decided"
  /\ UNCHANGED <<backupDir, retention, now, dryRunResult, pruneResult>>
  /\ UNCHANGED <<gfs, calendar, command, backup, relational>>

SpecShouldPrune == ShouldPruneInit /\ [][ShouldPrune]_vars

PruneInit ==
  /\ backupDir \in Dirs
  /\ retention \in Retentions
  /\ now = PruneNow
  /\ shouldPruneCall = NoCall
  /\ dryRunResult = NoCall
  /\ pruneResult = NoCall
  /\ GfsIdle /\ CalendarIdle /\ CommandIdle /\ BackupIdle /\ RelationalIdle
  /\ pc = "start"

\* PruneService.dryRun: runPrune with dryRun
RunPruneDry ==
  /\ pc = "start"
  /\ manifests' = listManifests(backupDir)
  /\ dryRunResult' = runPrune(backupDir, retention, now, TRUE, {})
  /\ backupDir' = DirAfterPrune(backupDir, dryRunResult', {})
  /\ pc' = "dry"
  /\ UNCHANGED <<retention, now, shouldPruneCall, pruneResult>>
  /\ UNCHANGED <<config, classified, reordered, reclassified, minKeep, toPrune>>
  /\ UNCHANGED <<calendar, command, backup, relational>>

\* PruneService.prune: runPrune; rm may fail for some of the directories
RunPrune ==
  /\ pc \in {"start", "dry"}
  /\ manifests' = listManifests(backupDir)
  /\ \E failing \in SUBSET {backupDir.entries[i].id : i \in 1..Len(backupDir.entries)} :
       /\ pruneResult' = runPrune(backupDir, retention, now, FALSE, failing)
       /\ backupDir' = DirAfterPrune(backupDir, pruneResult', failing)
  /\ pc' = IF pc = "dry" THEN "pruned after dry" ELSE "pruned"
  /\ UNCHANGED <<retention, now, shouldPruneCall, dryRunResult>>
  /\ UNCHANGED <<config, classified, reordered, reclassified, minKeep, toPrune>>
  /\ UNCHANGED <<calendar, command, backup, relational>>

PruneNext == RunPruneDry \/ RunPrune

SpecPrune == PruneInit /\ [][PruneNext]_vars

----------------------------------------------------------------------------
(* The prune command: cli.ts *)

\* options.keep ?? config.retention.minKeep
KeepCount(opts, ret) == IF opts.hasKeep THEN opts.keep ELSE ret.minKeep

\* options.days || config.retention.days
RetentionDays(opts, ret) == IF opts.days # 0 THEN opts.days ELSE ret.days

\* now - retentionDays * 24 * 60 * 60 * 1000
CutoffDate(clock, retentionDays) == clock - retentionDays * TicksPerDay

\* the age-based loop: toKeep after the manifests of the listing
RECURSIVE AgeBasedKeep(_, _, _)
AgeBasedKeep(listed, keepCount, cutoffDate) ==
  IF listed = <<>> THEN <<>>
  ELSE LET Step(toKeepSoFar, manifest) ==
             IF Len(toKeepSoFar) < keepCount THEN Append(toKeepSoFar, manifest)
             ELSE IF GetTime(manifest) >= cutoffDate THEN Append(toKeepSoFar, manifest)
             ELSE toKeepSoFar
       IN  Step(AgeBasedKeep(SubSeq(listed, 1, Len(listed) - 1), keepCount, cutoffDate),
                listed[Len(listed)])

\* the age-based loop: toDelete after the manifests of the listing
AgeBasedDelete(listed, keepCount, clock, retentionDays) ==
  LET Rest(toKeepAll) ==
        SelectSeq(listed, LAMBDA m : \A k \in 1..Len(toKeepAll) : toKeepAll[k].id # m.id)
      Entries(rest) ==
        [k \in 1..Len(rest) |->
           [manifest |-> rest[k],
            reason |-> [kind |-> "older than", arg |-> NumToString(retentionDays)]]]
  IN  Entries(Rest(AgeBasedKeep(listed, keepCount, CutoffDate(clock, retentionDays))))

\* backupsToPrune.map((t) => ({ manifest: t.manifest, reason: t.tierReason }))
GfsDelete(listed, gfsConfig, keepCount) ==
  LET Entries(backupsToPrune) ==
        [k \in 1..Len(backupsToPrune) |->
           [manifest |-> backupsToPrune[k].manifest,
            reason |-> backupsToPrune[k].tierReason]]
  IN  Entries(getBackupsToPrune(listed, gfsConfig, keepCount))

\* faulty variant: the age-based loop runs whatever the switch is
CommandToDeleteByAge(enabled, listed, gfsConfig, opts, ret, clock) ==
  IF Len(listed) = 0 THEN <<>>
  ELSE AgeBasedDelete(listed, KeepCount(opts, ret), clock, RetentionDays(opts, ret))

\* the policy switch: if (config.retention.gfs?.enabled) ... else ...
CommandToDelete(enabled, listed, gfsConfig, opts, ret, clock) ==
  IF Len(listed) = 0 THEN <<>>
  ELSE IF enabled THEN GfsDelete(listed, gfsConfig, KeepCount(opts, ret))
  ELSE AgeBasedDelete(listed, KeepCount(opts, ret), clock, RetentionDays(opts, ret))

\* toKeep: in GFS mode manifests.filter((m) => !toDelete.some(...)), in the
\* age-based mode the list the loop fills
CommandToKeep(enabled, listed, deleted, opts, ret, clock) ==
  IF Len(listed) = 0 THEN <<>>
  ELSE IF enabled
  THEN SelectSeq(listed, LAMBDA m : \A k \in 1..Len(deleted) : deleted[k].manifest.id # m.id)
  ELSE AgeBasedKeep(listed, KeepCount(opts, ret),
                    CutoffDate(clock, RetentionDays(opts, ret)))

\* the backup directory after the rm -rf of the backups of toDelete
DirAfterCommand(dir, deleted, opts) ==
  IF opts.dryRun THEN dir
  ELSE [dir EXCEPT !.entries =
          SelectSeq(dir.entries,
                    LAMBDA m : \A k \in 1..Len(deleted) : deleted[k].manifest.id # m.id)]

\* the backup directories of the prune command
CommandDirs == {NoDir} \cup {[exists |-> TRUE, entries |-> l] : l \in Listings}

\* the GFS configurations of the prune command
CommandConfigs == [daily : 0..1, weekly : 0..1, monthly : {0}]

\* the retention configurations of the prune command
CommandRetentions == [days : 0..MaxDays, minKeep : 0..1]

\* the options of the prune command: none; --keep 0; --keep, --days and
\* --dry-run together
CommandOptions ==
  { [made |-> TRUE, hasKeep |-> FALSE, keep |-> 0, days |-> 0, dryRun |-> FALSE],
    [made |-> TRUE, hasKeep |-> TRUE, keep |-> 0, days |-> 0, dryRun |-> FALSE],
    [made |-> TRUE, hasKeep |-> TRUE, keep |-> 2, days |-> 1, dryRun |-> TRUE] }

CommandInit ==
  /\ backupDir \in CommandDirs
  /\ retention \in CommandRetentions
  /\ config \in CommandConfigs
  /\ gfsEnabled \in BOOLEAN
  /\ now = PruneNow
  /\ options = NoCall
  /\ toDelete = <<>>
  /\ toKeep = <<>>
  /\ manifests = <<>>
  /\ classified = <<>>
  /\ reordered = <<>>
  /\ reclassified = <<>>
  /\ minKeep = 0
  /\ toPrune = <<>>
  /\ shouldPruneCall = NoCall
  /\ dryRunResult = NoCall
  /\ pruneResult = NoCall
  /\ CalendarIdle /\ BackupIdle /\ RelationalIdle
  /\ pc = "start"

\* pg-backup prune
PruneCommand ==
  /\ pc = "start"
  /\ \E opts \in CommandOptions :
       /\ options' = opts
       /\ manifests' = listManifests(backupDir)
       /\ toDelete' = CommandToDelete(gfsEnabled, manifests', config, opts, retention, now)
       /\ toKeep' = CommandToKeep(gfsEnabled, manifests', toDelete', opts, retention, now)
       /\ backupDir' = DirAfterCommand(backupDir, toDelete', opts)
  /\ pc' = "commanded"
  /\ UNCHANGED <<config, classified, reordered, reclassified, minKeep, toPrune>>
  /\ UNCHANGED <<retention, now, shouldPruneCall, dryRunResult, pruneResult, gfsEnabled>>
  /\ UNCHANGED <<calendar, backup, relational>>

SpecCommand == CommandInit /\ [][PruneCommand]_vars

----------------------------------------------------------------------------
(* A backup run: backup-service.ts.  The environment of a run says how each *)
(* step turns out: a call returns success, returns failure or throws.       *)

\* Step 1: databaseResult.success after the dump and its checksum
DatabaseSuccess(env) ==
  IF ~env.pgDump THEN FALSE
  ELSE IF env.dump = "throws" THEN FALSE
  ELSE IF env.dump = "fails" THEN FALSE
  ELSE env.checksum

\* Step 1: the errors pushed by the database dump
DatabaseErrors(env) ==
  IF ~env.pgDump THEN <<"pg_dump not available">>
  ELSE IF env.dump = "throws" THEN <<"Database dump error">>
  ELSE IF env.dump = "fails" THEN <<"Database dump failed">>
  ELSE IF ~env.checksum THEN <<"Database dump error">>
  ELSE <<>>

\* Step 1: filesToSync.push(dbDumpPath) precedes the checksum
DatabaseFiles(env) ==
  IF env.pgDump /\ env.dump = "succeeds" THEN <<"database">> ELSE <<>>

\* Step 2: the errors pushed while archiving config.directories; a missing
\* directory is skipped
RECURSIVE ArchiveErrors(_, _)
ArchiveErrors(directories, archive) ==
  IF directories = <<>> THEN <<>>
  ELSE LET rest == ArchiveErrors(Tail(directories), Tail(archive))
       IN  CASE archive[1] = "fails"  -> <<"Directory archive failed">> \o rest
             [] archive[1] = "throws" -> <<"Directory archive error">> \o rest
             [] OTHER                 -> rest

\* Step 2: the archives pushed to directoryResults and to filesToSync
RECURSIVE ArchiveFiles(_, _)
ArchiveFiles(directories, archive) ==
  IF directories = <<>> THEN <<>>
  ELSE LET rest == ArchiveFiles(Tail(directories), Tail(archive))
       IN  IF archive[1] = "succeeds" THEN <<directories[1]>> \o rest ELSE rest

\* Step 3: the errors pushed by the encryption of filesToSync
RECURSIVE EncryptFiles(_, _)
EncryptFiles(files, encrypt) ==
  IF files = <<>> THEN <<>>
  ELSE LET rest == EncryptFiles(Tail(files), encrypt)
       IN  CASE encrypt = "fails"  -> <<"Encryption failed">> \o rest
             [] encrypt = "throws" -> <<"Encryption error">> \o rest
             [] OTHER              -> rest

EncryptionErrors(cfg, env, files) ==
  IF ~cfg.encryptionKey THEN <<>>
  ELSE IF ~env.gpg THEN <<"GPG not available">>
  ELSE EncryptFiles(files, env.encrypt)

\* Step 4: the errors pushed by the offsite sync; a failed rsync without an
\* error text pushes nothing
OffsiteErrors(cfg, env) ==
  CASE cfg.offsite = "s3" ->
         IF env.offsite = "throws" THEN <<"S3 sync error">>
         ELSE IF env.offsite = "succeeds" THEN <<>>
         ELSE <<"S3 sync errors">>
    [] cfg.offsite = "rsync" ->
         IF env.offsite = "throws" THEN <<"Rsync sync error">>
         ELSE IF env.offsite = "fails" THEN <<"Rsync sync error">>
         ELSE <<>>
    [] OTHER -> <<>>

\* offsiteResult.synced, for a configured offsite target
OffsiteSynced(cfg, env) == cfg.offsite # "none" /\ env.offsite = "succeeds"

\* the errors recorded by steps 1 to 4
StepErrors(cfg, env) ==
  LET Through(files) ==
        DatabaseErrors(env) \o ArchiveErrors(cfg.directories, env.archive)
          \o EncryptionErrors(cfg, env, files) \o OffsiteErrors(cfg, env)
  IN  Through(DatabaseFiles(env) \o ArchiveFiles(cfg.directories, env.archive))

\* Step 5: the error pushed when saveManifest throws, after the status was
\* written into the manifest
SaveErrors(env) == IF env.save THEN <<>> ELSE <<"Failed to save manifest">>

\* status of the manifest
BackupStatus(success, errors) ==
  IF success /\ Len(errors) = 0 THEN "complete"
  ELSE IF ~success THEN "failed"
  ELSE "partial"

\* runBackup(config): the promise rejects when the backup directory cannot
\* be created, otherwise it resolves to { success, manifest, backupPath, error }
runBackup(cfg, env) ==
  IF ~env.mkdir
  THEN [made |-> TRUE, rejected |-> TRUE]
  ELSE LET Result(success, stepErrors, saveErrors) ==
             [made |-> TRUE,
              rejected |-> FALSE,
              success |-> success,
              manifest |->
                [status |-> BackupStatus(success, stepErrors),
                 encrypted |-> cfg.encryptionKey,
                 directories |-> ArchiveFiles(cfg.directories, env.archive),
                 synced |-> OffsiteSynced(cfg, env)],
              saved |-> env.save,
              error |-> stepErrors \o saveErrors]
       IN  Result(DatabaseSuccess(env), StepErrors(cfg, env), SaveErrors(env))

\* how a call made by a step turns out
Outcomes == {"succeeds", "fails", "throws"}

\* config.directories, config.encryptionKey and config.offsite
BackupConfigs ==
  [made : {TRUE},
   directories : {<<>>, <<"data">>, <<"data", "uploads">>},
   encryptionKey : BOOLEAN,
   offsite : {"none", "s3", "rsync"}]

\* the outcomes of the calls runBackup makes under a configuration; a step
\* that is not configured makes no call
BackupEnvs(cfg) ==
  [made : {TRUE},
   mkdir : BOOLEAN,
   pgDump : BOOLEAN,
   dump : Outcomes,
   checksum : BOOLEAN,
   archive : [1..Len(cfg.directories) -> Outcomes \cup {"missing"}],
   gpg : IF cfg.encryptionKey THEN BOOLEAN ELSE {FALSE},
   encrypt : IF cfg.encryptionKey THEN Outcomes ELSE {"succeeds"},
   offsite : CASE cfg.offsite = "s3" -> Outcomes
               [] cfg.offsite = "rsync" -> Outcomes \cup {"fails silently"}
               [] OTHER -> {"succeeds"},
   save : BOOLEAN]

BackupInit ==
  /\ backupConfig \in BackupConfigs
  /\ backupEnv = NoCall
  /\ backupResult = NoCall
  /\ pc = "start"
  /\ GfsIdle /\ CalendarIdle /\ LegacyIdle /\ CommandIdle /\ RelationalIdle

\* BackupService.run(): one run of runBackup
RunBackup ==
  /\ pc = "start"
  /\ \E env \in BackupEnvs(backupConfig) :
       /\ backupEnv' = env
       /\ backupResult' = runBackup(backupConfig, env)
  /\ pc' = "backed up"
  /\ UNCHANGED <<gfs, calendar, legacy, command, relational, backupConfig>>

SpecBackup == BackupInit /\ [][RunBackup]_vars

----------------------------------------------------------------------------
(* The GFS functions called twice: the prune command run again on what a    *)
(* first run left, the listing classified under a second configuration, and *)
(* the prune selector called with a second floor                            *)

\* faulty variant: the first run deletes nothing
RemainingAll(listed, pruned) == listed

\* the listing of the backup directory after the backups of a prune list
\* were deleted: listManifests keeps the order of those that are left
Remaining(listed, pruned) ==
  SelectSeq(listed,
            LAMBDA m : \A k \in 1..Len(pruned) : pruned[k].manifest.id # m.id)

\* the listings as the commands hand them to the GFS functions: listManifests
\* returns the backups newest first
Listed == {l \in Listings : l = SortNewestFirst(l)}

\* a backup directory was listed, no GFS function has been called
ListedInit ==
  /\ manifests \in Listed
  /\ config \in Configs
  /\ classified = <<>>
  /\ reordered = <<>>
  /\ reclassified = <<>>
  /\ minKeep = 0
  /\ toPrune = <<>>
  /\ CalendarIdle
  /\ ElsewhereIdle
  /\ pc = "start"

\* the prune command with GFS retention, run a second time on the backups
\* the first run left
PruneTwice ==
  /\ pc = "start"
  /\ \E k \in 0..MaxMinKeep :
       LET Again(backupsToPrune) ==
             /\ toPrune' = backupsToPrune
             /\ afterPrune' = Remaining(manifests, backupsToPrune)
             /\ afterPruneClassified' = classifyBackups(afterPrune', config)
             /\ afterPruneToPrune' = getBackupsToPrune(afterPrune', config, k)
       IN  /\ minKeep' = k
           /\ Again(getBackupsToPrune(manifests, config, k))
  /\ classified' = classifyBackups(manifests, config)
  /\ pc' = "pruned twice"
  /\ UNCHANGED <<manifests, config, reordered, reclassified>>
  /\ UNCHANGED <<raised, raisedClassified, higherMinKeep, higherToPrune>>
  /\ UNCHANGED <<calendar, legacy, command, backup>>

SpecPruneTwice == ListedInit /\ [][PruneTwice]_vars

\* faulty variant: the second configuration is any configuration
AtLeastAny(gfsConfig) == Configs

\* the configurations whose counts are at least those of a configuration
AtLeast(gfsConfig) ==
  { c \in Configs : /\ c.daily >= gfsConfig.daily
                    /\ c.weekly >= gfsConfig.weekly
                    /\ c.monthly >= gfsConfig.monthly }

\* the same listing classified under a configuration and under one with
\* counts at least as high
ClassifyRaised ==
  /\ pc = "start"
  /\ classified' = classifyBackups(manifests, config)
  /\ \E c \in AtLeast(config) :
       /\ raised' = c
       /\ raisedClassified' = classifyBackups(manifests, c)
  /\ pc' = "raised"
  /\ UNCHANGED <<manifests, config, reordered, reclassified, minKeep, toPrune>>
  /\ UNCHANGED <<afterPrune, afterPruneClassified, afterPruneToPrune>>
  /\ UNCHANGED <<higherMinKeep, higherToPrune>>
  /\ UNCHANGED <<calendar, legacy, command, backup>>

SpecRaised == ListedInit /\ [][ClassifyRaised]_vars

\* the prune selector called with a floor and with a floor at least as high
GetBackupsToPruneHigher ==
  /\ pc = "start"
  /\ \E k1 \in 0..MaxMinKeep : \E k2 \in k1..MaxMinKeep :
       /\ minKeep' = k1
       /\ toPrune' = getBackupsToPrune(manifests, config, k1)
       /\ higherMinKeep' = k2
       /\ higherToPrune' = getBackupsToPrune(manifests, config, k2)
  /\ pc' = "pruned higher"
  /\ UNCHANGED <<manifests, config, classified, reordered, reclassified>>
  /\ UNCHANGED <<afterPrune, afterPruneClassified, afterPruneToPrune>>
  /\ UNCHANGED <<raised, raisedClassified>>
  /\ UNCHANGED <<calendar, legacy, command, backup>>

SpecFloors == ListedInit /\ [][GetBackupsToPruneHigher]_vars

----------------------------------------------------------------------------
(* Properties of the tiers *)

\* the manifests a classification puts in the tier
InTier(result, tier) ==
  {result[i].manifest : i \in {k \in 1..Len(result) : result[k].tier = tier}}

\* the manifests a classification puts in another tier
NotInTier(result, tier) ==
  {result[i].manifest : i \in {k \in 1..Len(result) : result[k].tier # tier}}

\* C11: the daily tier is the min(config.daily, number of backups) newest
\* backups: that many backups are daily, and no daily backup is older than a
\* backup of another tier.
DailyIsNewest ==
  pc = "classified" =>
    /\ Cardinality(InTier(classified, "daily")) = Min(config.daily, Len(manifests))
    /\ \A d \in InTier(classified, "daily") :
         \A m \in NotInTier(classified, "daily") : GetTime(d) >= GetTime(m)

\* a listing with more backups than config.daily, where a daily backup is
\* newer than a backup that is not daily
DailyIsNewestWitness ==
  /\ pc = "classified"
  /\ config.daily >= 1
  /\ Len(manifests) > config.daily
  /\ \E d \in InTier(classified, "daily") :
       \E m \in NotInTier(classified, "daily") : GetTime(d) > GetTime(m)

\* C12: at most one backup of an ISO week is weekly, and a weekly backup is
\* the oldest of the backups of its ISO week that are not daily: no backup
\* of its week outside the daily tier has a smaller timestamp.
WeeklyIsOldestOfWeek ==
  pc = "classified" =>
    /\ \A a, b \in InTier(classified, "weekly") : SameWeek(a, b) => a = b
    /\ \A w \in InTier(classified, "weekly") :
         \A m \in NotInTier(classified, "daily") :
           SameWeek(w, m) => GetTime(w) <= GetTime(m)

\* a weekly backup with a newer backup of the same ISO week that is not daily
WeeklyIsOldestOfWeekWitness ==
  /\ pc = "classified"
  /\ \E w \in InTier(classified, "weekly") :
       \E m \in NotInTier(classified, "daily") :
         /\ SameWeek(w, m)
         /\ GetTime(w) < GetTime(m)
         /\ m \notin InTier(classified, "weekly")

\* the ISO weeks of a set of backups
WeeksOf(S) == {getISOWeek(GetTime(m)) : m \in S}

\* C13: the weekly tier covers the most recent weeks first: there are
\* min(config.weekly, number of ISO weeks that hold a backup that is not
\* daily) weekly backups, and when a week has a weekly backup, every later
\* ISO week that holds a backup that is not daily has a weekly backup too.
NewestWeeksFirst ==
  pc = "classified" =>
    /\ Cardinality(InTier(classified, "weekly")) =
         Min(config.weekly, Cardinality(WeeksOf(NotInTier(classified, "daily"))))
    /\ \A w \in InTier(classified, "weekly") :
         \A m \in NotInTier(classified, "daily") :
           WeekLater(m, w) => \E v \in InTier(classified, "weekly") : SameWeek(v, m)

\* more weeks than config.weekly: a later week has a weekly backup and an
\* earlier week that holds backups outside the daily tier has none
NewestWeeksFirstWitness ==
  /\ pc = "classified"
  /\ config.weekly >= 1
  /\ Cardinality(WeeksOf(NotInTier(classified, "daily"))) > config.weekly
  /\ \E w \in InTier(classified, "weekly") :
       \E m \in NotInTier(classified, "daily") :
         /\ WeekLater(w, m)
         /\ \A v \in InTier(classified, "weekly") : ~SameWeek(v, m)

\* the UTC months of a set of backups
MonthsOf(S) == {<<getUTCFullYear(GetTime(m)), getUTCMonth(GetTime(m))>> : m \in S}

\* the backups a classification leaves to the monthly pass: neither daily
\* nor weekly
LeftForMonthly(result) == InTier(result, "monthly") \cup InTier(result, "prunable")

\* C14: the monthly tier is computed over the backups that are neither daily
\* nor weekly: at most one backup of a UTC month is monthly, it is the oldest
\* of those backups in its month, there are min(config.monthly, number of
\* months of those backups) monthly backups, and when a month has a monthly
\* backup every later month of those backups has one too.
MonthlyOverRemaining ==
  pc = "classified" =>
    /\ \A a, b \in InTier(classified, "monthly") : SameMonth(a, b) => a = b
    /\ \A w \in InTier(classified, "monthly") :
         \A m \in LeftForMonthly(classified) :
           SameMonth(w, m) => GetTime(w) <= GetTime(m)
    /\ Cardinality(InTier(classified, "monthly")) =
         Min(config.monthly, Cardinality(MonthsOf(LeftForMonthly(classified))))
    /\ \A w \in InTier(classified, "monthly") :
         \A m \in LeftForMonthly(classified) :
           MonthLater(m, w) => \E v \in InTier(classified, "monthly") : SameMonth(v, m)

\* a month whose oldest backup is weekly and whose monthly backup is a newer
\* one
MonthlyOverRemainingWitness ==
  /\ pc = "classified"
  /\ \E w \in InTier(classified, "monthly") :
       \E x \in InTier(classified, "weekly") :
         SameMonth(x, w) /\ GetTime(x) < GetTime(w)

\* C19: when config.daily is at least the number of backups, every backup is
\* daily and none is weekly, monthly or prunable, whatever config.weekly and
\* config.monthly are.
AllDailyWhenEnough ==
  (pc = "classified" /\ config.daily >= Len(manifests)) =>
    /\ Len(classified) = Len(manifests)
    /\ \A i \in 1..Len(classified) : classified[i].tier = "daily"
    /\ InTier(classified, "daily") = Range(manifests)

\* two backups of different ISO weeks and months, all daily although weekly
\* and monthly slots are configured
AllDailyWhenEnoughWitness ==
  /\ pc = "classified"
  /\ Len(manifests) = 2
  /\ config.daily >= Len(manifests)
  /\ config.weekly >= 1
  /\ config.monthly >= 1
  /\ ~SameWeek(manifests[1], manifests[2])
  /\ ~SameMonth(manifests[1], manifests[2])
  /\ \A i \in 1..Len(classified) : classified[i].tier = "daily"

----------------------------------------------------------------------------
(* Properties of the calendar keys *)

\* the number of the UTC day of an instant, 1970-01-01 being day 0
DayOf(t) == t \div TicksPerDay

\* the Monday of the Monday-to-Sunday week of day n (day 0 is a Thursday)
MondayOf(n) == n - ((n + 3) % 7)

\* the Thursday of the Monday-to-Sunday week of day n
ThursdayOf(n) == MondayOf(n) + 3

\* the calendar year of day n
YearOfDay(n) == getUTCFullYear(n * TicksPerDay)

\* the first Thursday of the calendar year
FirstThursday(year) ==
  LET Among(jan1) == CHOOSE n \in jan1..(jan1 + 6) : n % 7 = 0
  IN  Among(DateUTC(year, 0, 1) \div TicksPerDay)

\* C15: getISOWeek returns the ISO-8601 week-numbering year and week: the
\* week is in 1..53, the year is the calendar year of the Thursday of the
\* Monday-to-Sunday week of the date, and the weeks of a year are counted
\* from the week of its first Thursday, which is week 1.
IsoWeekStandard ==
  pc = "week" =>
    /\ isoWeek.week \in 1..53
    /\ isoWeek.year = YearOfDay(ThursdayOf(DayOf(date)))
    /\ isoWeek.week = 1 + (ThursdayOf(DayOf(date)) - FirstThursday(isoWeek.year)) \div 7
    /\ isoWeek.week = 1 <=> ThursdayOf(DayOf(date)) = FirstThursday(isoWeek.year)

\* a date of January that belongs to week 53 of the year before
IsoWeekStandardWitness ==
  /\ pc = "week"
  /\ isoWeek.week = 53
  /\ isoWeek.year = getUTCFullYear(date) - 1

\* the Mondays among the UTC days of the model
Mondays == {n \in Days : MondayOf(n) = n}

\* C16: getISOWeek groups the dates by Monday-to-Sunday weeks: a date has
\* the (year, week) pair of a Monday if and only if it lies in the
\* Monday-to-Sunday span that begins with that Monday, so that two dates
\* have the same pair if and only if they lie in the same span; a Sunday has
\* the pair of the Monday six days earlier and not the pair of the Monday
\* one day later.
WeeksAreMondayToSunday ==
  pc = "week" =>
    /\ \A e \in Mondays :
         (getISOWeek(e * TicksPerDay) = isoWeek) <=> (e = MondayOf(DayOf(date)))
    /\ (getUTCDay(date) = 0 /\ DayOf(date) + 1 \in Days) =>
         /\ getUTCDay((DayOf(date) - 6) * TicksPerDay) = 1
         /\ getISOWeek((DayOf(date) - 6) * TicksPerDay) = isoWeek
         /\ getISOWeek((DayOf(date) + 1) * TicksPerDay) # isoWeek

\* a Sunday with the week of the Monday six days earlier, the Monday one
\* day later having another week
WeeksAreMondayToSundayWitness ==
  /\ pc = "week"
  /\ getUTCDay(date) = 0
  /\ DayOf(date) - 6 \in Days
  /\ DayOf(date) + 1 \in Days
  /\ isoWeek = getISOWeek((DayOf(date) - 6) * TicksPerDay)
  /\ isoWeek # getISOWeek((DayOf(date) + 1) * TicksPerDay)

\* C17: at the year boundaries the days go to the neighbouring ISO year:
\* 2025-12-29 gives (2026, 1), 2025-12-28 gives (2025, 52), 2021-01-01 gives
\* (2020, 53) and 2020-12-31 gives (2020, 53).
YearBoundaryWeeks ==
  pc = "week" =>
    /\ DayOf(date) = DayOf(Instant(2025, 12, 29, 0)) => isoWeek = [year |-> 2026, week |-> 1]
    /\ DayOf(date) = DayOf(Instant(2025, 12, 28, 0)) => isoWeek = [year |-> 2025, week |-> 52]
    /\ DayOf(date) = DayOf(Instant(2021, 1, 1, 0)) => isoWeek = [year |-> 2020, week |-> 53]
    /\ DayOf(date) = DayOf(Instant(2020, 12, 31, 0)) => isoWeek = [year |-> 2020, week |-> 53]

\* getISOWeek has returned for 2025-12-29T00:00Z
YearBoundaryWeeksWitness ==
  /\ pc = "week"
  /\ date = Instant(2025, 12, 29, 0)
  /\ isoWeek = [year |-> 2026, week |-> 1]

\* the number a string of decimal digits stands for
RECURSIVE DigitsValue(_)
DigitsValue(str) ==
  IF str = <<>> THEN 0
  ELSE 10 * DigitsValue(SubSeq(str, 1, Len(str) - 1)) + (str[Len(str)] - 48)

\* the first instant of every month of the calendar years of the model
MonthStarts ==
  {DateUTC(y, m, 1) :
     y \in getUTCFullYear(FirstDay * TicksPerDay)..
           getUTCFullYear((FirstDay + SweepDays) * TicksPerDay),
     m \in 0..11}

\* C18: getMonthKey returns "YYYY-MM": the four digits of the UTC year, "-"
\* and the UTC month 01..12 in two digits; an instant has the key of the
\* first instant of a month if and only if it lies in that month of that
\* year, so that two instants have the same key if and only if they have the
\* same UTC year and month; the last instant of 2025-12-31 gives "2025-12"
\* and 2026-01-01T00:00Z gives "2026-01".
MonthKeyIsYearMonth ==
  pc = "month" =>
    /\ Len(monthKey) = 7
    /\ monthKey[5] = 45
    /\ \A i \in {1, 2, 3, 4, 6, 7} : monthKey[i] \in 48..57
    /\ DigitsValue(SubSeq(monthKey, 1, 4)) = getUTCFullYear(date)
    /\ DigitsValue(SubSeq(monthKey, 6, 7)) = getUTCMonth(date) + 1
    /\ DigitsValue(SubSeq(monthKey, 6, 7)) \in 1..12
    /\ \A e \in MonthStarts :
         (getMonthKey(e) = monthKey) <=>
           /\ getUTCFullYear(e) = getUTCFullYear(date)
           /\ getUTCMonth(e) = getUTCMonth(date)
    /\ date = Instant(2025, 12, 31, TicksPerDay - 1) =>
         monthKey = <<50, 48, 50, 53, 45, 49, 50>>
    /\ date = Instant(2026, 1, 1, 0) => monthKey = <<50, 48, 50, 54, 45, 48, 49>>

\* getMonthKey has returned "2025-12" for the last instant of 2025
MonthKeyIsYearMonthWitness ==
  /\ pc = "month"
  /\ date = Instant(2025, 12, 31, TicksPerDay - 1)
  /\ monthKey = <<50, 48, 50, 53, 45, 49, 50>>

\* the listing is a series of SeriesLength backups SeriesInterval days apart
IsSeries(listing) ==
  /\ Len(listing) = SeriesLength
  /\ \A k \in 1..(Len(listing) - 1) :
       GetTime(listing[k]) - GetTime(listing[k + 1]) = SeriesInterval * TicksPerDay

\* C20: ten backups whose timestamps are 3 days apart, classified with
\* daily = 2, weekly = 1 and monthly = 1, give exactly 2 daily, 1 weekly and
\* 1 monthly backup, and the other 6 are prunable with the reason "exceeds
\* retention".
SeriesKeepsFour ==
  (/\ pc = "classified"
   /\ IsSeries(manifests)
   /\ config = [daily |-> 2, weekly |-> 1, monthly |-> 1]) =>
    /\ Len(classified) = 10
    /\ Cardinality(InTier(classified, "daily")) = 2
    /\ Cardinality(InTier(classified, "weekly")) = 1
    /\ Cardinality(InTier(classified, "monthly")) = 1
    /\ Cardinality(InTier(classified, "prunable")) = 6
    /\ \A i \in 1..Len(classified) :
         classified[i].tier = "prunable" =>
           classified[i].tierReason = [kind |-> "exceeds retention", arg |-> <<>>]

\* the series of the test, newest backup 2025-12-29T12:00Z: 12-29 and 12-26
\* are daily, 12-23 is weekly, 12-02 is monthly
SeriesKeepsFourWitness ==
  /\ pc = "classified"
  /\ IsSeries(manifests)
  /\ GetTime(manifests[1]) = Instant(2025, 12, 29, TicksPerDay \div 2)
  /\ config = [daily |-> 2, weekly |-> 1, monthly |-> 1]
  /\ TiersOf(classified, 1) = {"daily"}
  /\ TiersOf(classified, 2) = {"daily"}
  /\ TiersOf(classified, 3) = {"weekly"}
  /\ TiersOf(classified, 10) = {"monthly"}
  /\ Cardinality(InTier(classified, "prunable")) = 6

\* C30: the week key that ranks the weekly candidates is chronological: for
\* two instants t1 <= t2 the "YYYY-Www" key of t1 is less than or equal to
\* the key of t2 under localeCompare, across year boundaries and week 53
\* too, so that the descending sort puts the most recent week first.  The
\* instant of the state is compared with the day before, with the day after
\* and with every Monday of the model.
WeekKeyIsChronological ==
  pc = "week" =>
    LET Ordered(key) ==
          /\ isoWeek = getISOWeek(date)
          /\ \A t \in {date - TicksPerDay, date - 1} :
               LocaleCompare(WeekKey(t), key) <= 0
          /\ \A t \in {date + 1, date + TicksPerDay} :
               LocaleCompare(key, WeekKey(t)) <= 0
          /\ \A e \in Mondays :
               /\ e * TicksPerDay <= date =>
                    LocaleCompare(WeekKey(e * TicksPerDay), key) <= 0
               /\ date <= e * TicksPerDay =>
                    LocaleCompare(key, WeekKey(e * TicksPerDay)) <= 0
               /\ date < e * TicksPerDay =>
                    LocaleCompare(key, WeekKey(e * TicksPerDay)) < 0
    IN  Ordered(WeekKey(date))

\* a Monday of December in week 1 of the next year, whose key is greater
\* than the key of week 52 the day before and less than the key of week 2
WeekKeyIsChronologicalWitness ==
  /\ pc = "week"
  /\ isoWeek.week = 1
  /\ isoWeek.year = getUTCFullYear(date) + 1
  /\ getISOWeek(date - TicksPerDay).week = 52
  /\ LocaleCompare(WeekKey(date - TicksPerDay), WeekKey(date)) < 0
  /\ LocaleCompare(WeekKey(date), WeekKey(date + 7 * TicksPerDay)) < 0

----------------------------------------------------------------------------
(* Properties of the age-based retention *)

\* C21: shouldPrune returns false whenever totalBackups <= retention.minKeep
\* or backupIndex < retention.minKeep (index 0 is the newest backup), and
\* otherwise it returns true exactly when backupAge > retention.days.
ShouldPruneRule ==
  shouldPruneCall.made =>
    IF \/ shouldPruneCall.totalBackups <= retention.minKeep
       \/ shouldPruneCall.backupIndex < retention.minKeep
    THEN shouldPruneCall.result = FALSE
    ELSE shouldPruneCall.result = (shouldPruneCall.backupAge > retention.days)

\* a backup beyond the floor whose age is exactly retention.days is not
\* pruned
ShouldPruneRuleWitness ==
  /\ shouldPruneCall.made
  /\ retention.minKeep >= 1
  /\ shouldPruneCall.totalBackups > retention.minKeep
  /\ shouldPruneCall.backupIndex >= retention.minKeep
  /\ shouldPruneCall.backupAge = retention.days
  /\ shouldPruneCall.result = FALSE

\* the number of times the id occurs in a list of ids
Occurrences(ids, id) == Cardinality({k \in 1..Len(ids) : ids[k] = id})

DryRunChangesNothing ==
  /\ pc = "dry" =>
       /\ dryRunResult.dryRun = TRUE
       /\ Len(backupDir.entries) = Len(manifests)
       /\ Range(backupDir.entries) = Range(manifests)
  /\ pc = "pruned after dry" =>
       /\ dryRunResult.dryRun = TRUE
       /\ pruneResult.dryRun = FALSE
       /\ pruneResult.pruned = dryRunResult.pruned
       /\ pruneResult.kept = dryRunResult.kept

\* a dry run that reported a backup as pruned, followed by a real run that
\* reported the same and removed it
DryRunChangesNothingWitness ==
  /\ pc = "pruned after dry"
  /\ Len(dryRunResult.pruned) >= 1
  /\ Len(dryRunResult.kept) >= 1
  /\ pruneResult.pruned = dryRunResult.pruned
  /\ Len(backupDir.entries) < Len(manifests)

----------------------------------------------------------------------------
(* Properties of the prune command *)

\* the manifests of the entries of toDelete
DeletedManifests(deleted) == [k \in 1..Len(deleted) |-> deleted[k].manifest]

\* C24: the prune command selects its policy by the GFS switch.  With GFS
\* enabled the backups to delete are exactly those of getBackupsToPrune for
\* the listing, the GFS configuration and the keep count, whatever the clock
\* and the retention days are.  With GFS not enabled the age-based rule
\* decides, whatever the GFS configuration is: a backup is deleted if and
\* only if at least keep count backups stand before it in the listing and
\* it is older than the cutoff.  In both modes every listed manifest is
\* in exactly one of toDelete and toKeep.
CommandPolicySwitch ==
  pc = "commanded" =>
    /\ gfsEnabled =>
         /\ LET Same(backupsToPrune) ==
                  /\ Len(toDelete) = Len(backupsToPrune)
                  /\ \A k \in 1..Len(toDelete) :
                       toDelete[k].manifest = backupsToPrune[k].manifest
            IN  Same(getBackupsToPrune(manifests, config, KeepCount(options, retention)))
         /\ \A k \in 1..Len(toDelete) : toDelete[k].reason.kind = "exceeds retention"
    /\ ~gfsEnabled =>
         /\ \A i \in 1..Len(manifests) :
              (manifests[i] \in Range(DeletedManifests(toDelete))) <=>
                /\ i - 1 >= KeepCount(options, retention)
                /\ GetTime(manifests[i]) <
                     now - RetentionDays(options, retention) * TicksPerDay
         /\ \A k \in 1..Len(toDelete) : toDelete[k].reason.kind = "older than"
    /\ \A m \in Range(manifests) :
         Cardinality({k \in 1..Len(toDelete) : toDelete[k].manifest.id = m.id}) +
         Cardinality({k \in 1..Len(toKeep) : toKeep[k].id = m.id}) = 1
    /\ Len(toDelete) + Len(toKeep) = Len(manifests)

\* with GFS enabled a backup younger than the cutoff is deleted and a backup
\* older than the cutoff is kept
CommandPolicySwitchWitness ==
  /\ pc = "commanded"
  /\ gfsEnabled
  /\ \E k \in 1..Len(toDelete) :
       GetTime(toDelete[k].manifest) >= now - RetentionDays(options, retention) * TicksPerDay
  /\ \E k \in 1..Len(toKeep) :
       GetTime(toKeep[k]) < now - RetentionDays(options, retention) * TicksPerDay

----------------------------------------------------------------------------
(* Relations between calls of the GFS functions *)

\* C25: the list classifyBackups returns is ordered by timestamp descending,
\* newest first, whatever the order of the input and whatever the tiers: no
\* record stands before a record of a newer backup.
ResultNewestFirst ==
  pc = "classified" =>
    \A i, j \in 1..Len(classified) :
      i < j => GetTime(classified[i].manifest) >= GetTime(classified[j].manifest)

\* an input listed oldest first, whose result has a prunable backup before
\* an older backup that is kept
ResultNewestFirstWitness ==
  /\ pc = "classified"
  /\ Len(manifests) >= 2
  /\ GetTime(manifests[1]) < GetTime(manifests[2])
  /\ \E i, j \in 1..Len(classified) :
       /\ i < j
       /\ classified[i].tier = "prunable"
       /\ classified[j].tier # "prunable"
       /\ GetTime(classified[i].manifest) > GetTime(classified[j].manifest)

Retained == {"daily", "weekly", "monthly"}

\* C27: GFS pruning is idempotent: when the backups of
\* getBackupsToPrune(B, C, minKeep) are removed from B, getBackupsToPrune of
\* what is left, with the same C and minKeep, is empty, and every backup left
\* that was daily, weekly or monthly in classifyBackups(B, C) has the same
\* tier when what is left is classified.
PruneIsIdempotent ==
  pc = "pruned twice" =>
    /\ afterPruneToPrune = <<>>
    /\ \A i \in 1..Len(classified) :
         (/\ classified[i].tier \in Retained
          /\ \E k \in 1..Len(afterPrune) :
               afterPrune[k].id = classified[i].manifest.id)
         => \E j \in 1..Len(afterPruneClassified) :
              /\ afterPruneClassified[j].manifest.id = classified[i].manifest.id
              /\ afterPruneClassified[j].tier = classified[i].tier

\* a first run that deleted a backup and left a daily, a weekly and a
\* prunable backup: the floor held the prunable one back
PruneIsIdempotentWitness ==
  /\ pc = "pruned twice"
  /\ Len(toPrune) >= 1
  /\ Len(afterPrune) = Len(manifests) - Len(toPrune)
  /\ \E i, j \in 1..Len(afterPruneClassified) :
       /\ afterPruneClassified[i].tier = "weekly"
       /\ afterPruneClassified[j].tier = "prunable"
  /\ afterPruneToPrune = <<>>

\* C28: raising a tier count never costs a retained backup: when daily,
\* weekly and monthly of C2 are each at least those of C1, every backup that
\* classifyBackups(B, C1) puts in daily, weekly or monthly is not prunable in
\* classifyBackups(B, C2).
RaisingKeepsRetained ==
  pc = "raised" =>
    \A i \in 1..Len(classified) :
      classified[i].tier \in Retained =>
        \A j \in 1..Len(raisedClassified) :
          raisedClassified[j].manifest.id = classified[i].manifest.id
            => raisedClassified[j].tier \in Retained

\* a weekly backup that a higher daily count turns into a daily backup, while
\* a backup that was prunable takes the weekly tier
RaisingKeepsRetainedWitness ==
  /\ pc = "raised"
  /\ raised.daily > config.daily
  /\ raised.weekly = config.weekly
  /\ \E i, j \in 1..Len(classified) :
       /\ classified[i].tier = "weekly"
       /\ raisedClassified[i].manifest.id = classified[i].manifest.id
       /\ raisedClassified[i].tier = "daily"
       /\ classified[j].tier = "prunable"
       /\ raisedClassified[j].manifest.id = classified[j].manifest.id
       /\ raisedClassified[j].tier = "weekly"

\* C29: the prune list shrinks with the floor: for minKeep1 <= minKeep2,
\* getBackupsToPrune(B, C, minKeep2) is a prefix of
\* getBackupsToPrune(B, C, minKeep1), hence a subset of it.
HigherFloorPrunesPrefix ==
  pc = "pruned higher" =>
    /\ minKeep <= higherMinKeep
    /\ Len(higherToPrune) <= Len(toPrune)
    /\ \A k \in 1..Len(higherToPrune) : higherToPrune[k] = toPrune[k]

\* a higher floor that cuts the prune list down to a proper, non-empty prefix
HigherFloorPrunesPrefixWitness ==
  /\ pc = "pruned higher"
  /\ minKeep < higherMinKeep
  /\ 0 < Len(higherToPrune)
  /\ Len(higherToPrune) < Len(toPrune)

----------------------------------------------------------------------------
(* Properties of a backup run *)

DumpSucceeded(env) == env.pgDump /\ env.dump = "succeeds" /\ env.checksum

LaterStepErrors ==
  {"Directory archive failed", "Directory archive error",
   "GPG not available", "Encryption failed", "Encryption error",
   "S3 sync errors", "S3 sync error", "Rsync sync error"}

Recorded(errors, kinds) == \E k \in 1..Len(errors) : errors[k] \in kinds

\* C26: runBackup always produces a manifest; its status is "failed" exactly
\* when the database dump did not succeed, "complete" exactly when the dump
\* succeeded and no step recorded an error, "partial" exactly when the dump
\* succeeded and archiving, encryption or offsite sync recorded an error;
\* the success flag equals the success of the dump.
BackupStatusReflectsErrors ==
  pc = "backed up" =>
    /\ ~backupResult.rejected
    /\ LET Reflects(status, dumped) ==
             /\ status = "failed" <=> ~dumped
             /\ status = "complete" <=> (dumped /\ backupResult.error = <<>>)
             /\ status = "partial" <=>
                  (dumped /\ Recorded(backupResult.error, LaterStepErrors))
             /\ backupResult.success = dumped
       IN  Reflects(backupResult.manifest.status, DumpSucceeded(backupEnv))

====
